---- MODULE Spec2Model ----
(***************************************************************************)
(* Model of the MetadataSidebar component                                  *)
(* (src/components/ContentSidebar/MetadataSidebar.js).                      *)
(*                                                                         *)
(* The component state is {editors, templates, isLoading, hasError}.  The   *)
(* handlers (onAdd, onSave, onRemove, onModification) are invoked by the    *)
(* environment, the API continuations run in any order.  JavaScript object  *)
(* identity matters (Array.prototype.indexOf compares references), so each  *)
(* editor object carries a reference `ref`.  References are arbitrary      *)
(* addresses, so after every step the live objects are renumbered in order  *)
(* of appearance (list first, then closures): a symmetry reduction.         *)
(* A behaviour holds at most MaxIntents handler invocations; props.file is  *)
(* an input of render and not part of the state.                           *)
(***************************************************************************)
EXTENDS Integers, Sequences, FiniteSets, TLC

\* ---- bounds of the model ----
MaxId == 3
MaxInitial == 2
MaxIntents == 2

Ids == 1..MaxId
\* the templates an Add is issued with, and the templates lists a list response carries
Templates == {"t1"}
TemplateLists == {<<>>, <<"t1", "t2">>}
\* props.file, an input of render: permissions present or not, and if present its
\* can_upload undefined, false or true
Files == {[hasPermissions |-> FALSE, can_upload |-> "undefined"]} \cup
         [hasPermissions : {TRUE}, can_upload : {"undefined", "false", "true"}]

VARIABLES
    mounted,          \* componentDidMount has run
    editorsDefined,   \* state.editors !== undefined
    editors,          \* state.editors (<<>> while undefined)
    templatesDefined, \* state.templates !== undefined
    templates,        \* state.templates (<<>> while undefined)
    isLoading,        \* state.isLoading
    hasError,         \* state.hasError
    requests,         \* API requests issued whose continuations have not run, in issue order
    intents,          \* number of handler invocations so far
    last              \* the handler or continuation that ran last, with its arguments

vars == <<mounted, editorsDefined, editors, templatesDefined, templates,
          isLoading, hasError, requests, intents, last>>

state == <<editorsDefined, editors, templatesDefined, templates, isLoading, hasError>>

\* ---- values ----
Min(a, b) == IF a < b THEN a ELSE b
Max(a, b) == IF a > b THEN a ELSE b

\* type MetadataEditor = { instance: { id }, template, isDirty }, plus its object identity
MetadataEditor(ref, id, template, isDirty) ==
    [ref |-> ref, instance |-> [id |-> id], template |-> template, isDirty |-> isDirty]

NoEditor == MetadataEditor(0, 0, "none", FALSE)

\* an API call in flight: the method, the template passed, the editor its closure captured
Request(api, editor, template) == [api |-> api, editor |-> editor, template |-> template]

\* the handler or continuation that ran: its name, the API method whose continuation it
\* is, its id and isDirty arguments, and the editors and templates it was called with
Event(op, api, id, isDirty, eds, tpls) ==
    [op |-> op, api |-> api, id |-> id, isDirty |-> isDirty, editors |-> eds, templates |-> tpls]

Handler(op, id, isDirty) == Event(op, "none", id, isDirty, <<>>, <<>>)

\* the editors of a list, object identities left out
Content(arr) == [i \in 1..Len(arr) |-> [arr[i] EXCEPT !.ref = 0]]

\* ---- JavaScript array primitives, 0-based indices ----
\* Array.prototype.indexOf: strict equality, which for objects is reference identity
indexOf(arr, editor) ==
    IF \E i \in 1..Len(arr) : arr[i].ref = editor.ref
    THEN (CHOOSE i \in 1..Len(arr) :
            /\ arr[i].ref = editor.ref
            /\ \A j \in 1..(i - 1) : arr[j].ref # editor.ref) - 1
    ELSE -1

\* Array.prototype.findIndex(({ instance }) => instance.id === id)
findIndex(arr, id) ==
    IF \E i \in 1..Len(arr) : arr[i].instance.id = id
    THEN (CHOOSE i \in 1..Len(arr) :
            /\ arr[i].instance.id = id
            /\ \A j \in 1..(i - 1) : arr[j].instance.id # id) - 1
    ELSE -1

\* Array.prototype.splice(start, deleteCount, ...items) applied to a copy
splice(arr, start, deleteCount, items) ==
    LET len == Len(arr)
        s == IF start < 0 THEN Max(len + start, 0) ELSE Min(start, len)
        d == Min(Max(deleteCount, 0), len - s)
    IN SubSeq(arr, 1, s) \o items \o SubSeq(arr, s + d + 1, len)

\* ---- object identity: references held by the list or captured by a closure ----
Refs(ed, rq) ==
    [i \in 1..Len(ed) |-> ed[i].ref] \o [i \in 1..Len(rq) |-> rq[i].editor.ref]

\* a reference no live object holds
FreshRef == Len(editors) + Len(requests) + 1

\* the number a reference gets: its rank among the live references in order of appearance
Rank(refs, r) ==
    IF r = 0 THEN 0
    ELSE LET first == CHOOSE i \in 1..Len(refs) :
                        refs[i] = r /\ \A j \in 1..(i - 1) : refs[j] # r
         IN Cardinality({refs[j] : j \in 1..first} \ {0})

CanonEditors(ed, rq) ==
    [i \in 1..Len(ed) |-> [ed[i] EXCEPT !.ref = Rank(Refs(ed, rq), ed[i].ref)]]

CanonRequests(ed, rq) ==
    [i \in 1..Len(rq) |-> [rq[i] EXCEPT !.editor.ref = Rank(Refs(ed, rq), rq[i].editor.ref)]]

\* ---- Init ----
Init ==
    /\ mounted = FALSE
    /\ editorsDefined = FALSE
    /\ editors = <<>>
    /\ templatesDefined = FALSE
    /\ templates = <<>>
    /\ isLoading = FALSE
    /\ hasError = FALSE
    /\ requests = <<>>
    /\ intents = 0
    /\ last = Handler("constructor", 0, FALSE)

RemoveAt(seq, i) == SubSeq(seq, 1, i - 1) \o SubSeq(seq, i + 1, Len(seq))

\* a handler is invoked: one more of the MaxIntents invocations of a behaviour
Intent ==
    /\ mounted
    /\ intents < MaxIntents
    /\ intents' = intents + 1

\* the list and the requests after a step, references renumbered
Commit(ed, rq) ==
    /\ editors' = CanonEditors(ed, rq)
    /\ requests' = CanonRequests(ed, rq)

\* mutant: componentDidMount calling getMetadataEditors twice
componentDidMountTwice ==
    /\ ~mounted
    /\ mounted' = TRUE
    /\ requests' = requests \o << Request("getEditors", NoEditor, "none"),
                                  Request("getEditors", NoEditor, "none") >>
    /\ last' = Handler("componentDidMount", 0, FALSE)
    /\ UNCHANGED <<state, intents>>

\* componentDidMount: getMetadataEditors issues the getEditors request
componentDidMount ==
    /\ ~mounted
    /\ mounted' = TRUE
    /\ requests' = Append(requests, Request("getEditors", NoEditor, "none"))
    /\ last' = Handler("componentDidMount", 0, FALSE)
    /\ UNCHANGED <<state, intents>>

\* the editors of a list response: distinct ids 1..n, each a new object
ListResponse(n) ==
    [k \in 1..n |-> MetadataEditor(FreshRef + k - 1, k, IF k = 1 THEN "t1" ELSE "t2", FALSE)]

\* mutant: the success continuation of getEditors not clearing hasError
getEditorsStateKeepError(E, T) ==
    [templates |-> T, editors |-> E, isLoading |-> FALSE, hasError |-> hasError]

\* the argument of setState in the success continuation of getEditors
getEditorsState(E, T) ==
    [templates |-> T, editors |-> E, isLoading |-> FALSE, hasError |-> FALSE]

\* success continuation of getEditors: ({ editors, templates }) => setState(...)
getEditorsSuccess(i, n, T) ==
    /\ requests[i].api = "getEditors"
    /\ editorsDefined' = TRUE
    /\ Commit(getEditorsState(ListResponse(n), T).editors, RemoveAt(requests, i))
    /\ templatesDefined' = TRUE
    /\ templates' = getEditorsState(ListResponse(n), T).templates
    /\ isLoading' = getEditorsState(ListResponse(n), T).isLoading
    /\ hasError' = getEditorsState(ListResponse(n), T).hasError
    /\ last' = Event("success", "getEditors", 0, FALSE, Content(ListResponse(n)), T)
    /\ UNCHANGED <<mounted, intents>>

\* mutants: errorCallback leaving isLoading as it is; errorCallback leaving hasError as it is
errorCallbackKeepsLoading == [isLoading |-> isLoading, hasError |-> TRUE]

errorCallbackNoError == [isLoading |-> FALSE, hasError |-> hasError]

\* errorCallback: setState({ isLoading: false, hasError: true })
errorCallback == [isLoading |-> FALSE, hasError |-> TRUE]

\* failure continuation of any request: this.errorCallback
Failure(i) ==
    /\ isLoading' = errorCallback.isLoading
    /\ hasError' = errorCallback.hasError
    /\ Commit(editors, RemoveAt(requests, i))
    /\ last' = Event("failure", requests[i].api, requests[i].editor.instance.id, FALSE, <<>>, <<>>)
    /\ UNCHANGED <<mounted, intents, editorsDefined, templatesDefined, templates>>

\* mutant: getEditor falling back to the first editor when no editor has the id
getEditorOrFirst(id) ==
    LET index == findIndex(editors, id)
    IN IF index # -1 THEN editors[index + 1]
       ELSE IF Len(editors) > 0 THEN editors[1] ELSE NoEditor

\* getEditor(id): editors.find(({ instance }) => instance.id === id), NoEditor for undefined
getEditor(id) ==
    LET index == findIndex(editors, id)
    IN IF index = -1 THEN NoEditor ELSE editors[index + 1]

\* clone.splice(editors.indexOf(editor), 1) on a copy of the list
removeEditor(arr, editor) == splice(arr, indexOf(arr, editor), 1, <<>>)

\* onRemoveSuccessHandler(editor): the list given to setState
onRemoveSuccessHandler(editor) == removeEditor(editors, editor)

\* onRemove(id)
onRemove(id) ==
    LET editor == getEditor(id)
    IN /\ Intent
       /\ last' = Handler("onRemove", id, FALSE)
       /\ IF editor = NoEditor
          THEN UNCHANGED requests
          ELSE requests' = Append(requests, Request("deleteMetadata", editor, editor.template))
       /\ UNCHANGED <<mounted, state>>

\* success continuation of deleteMetadata: () => this.onRemoveSuccessHandler(editor)
deleteMetadataSuccess(i) ==
    /\ requests[i].api = "deleteMetadata"
    /\ editorsDefined' = TRUE
    /\ Commit(onRemoveSuccessHandler(requests[i].editor), RemoveAt(requests, i))
    /\ last' = Event("success", "deleteMetadata", requests[i].editor.instance.id, FALSE, <<>>, <<>>)
    /\ UNCHANGED <<mounted, intents, templatesDefined, templates, isLoading, hasError>>

\* mutant: onAddSuccessHandler putting the editor at the front (unshift for push)
onAddSuccessHandlerFront(editor) == <<editor>> \o editors

\* onAddSuccessHandler(editor): the list given to setState
onAddSuccessHandler(editor) == Append(editors, editor)

\* onAdd(template)
onAdd(template) ==
    /\ Intent
    /\ isLoading' = TRUE
    /\ requests' = Append(requests, Request("createMetadata", NoEditor, template))
    /\ last' = Handler("onAdd", 0, FALSE)
    /\ UNCHANGED <<mounted, editorsDefined, editors, templatesDefined, templates, hasError>>

\* mutants: the success continuation of createMetadata leaving isLoading set; the same
\* continuation clearing hasError
createMetadataSuccessKeepsLoading(i, id) ==
    LET editor == MetadataEditor(FreshRef, id, requests[i].template, FALSE)
    IN /\ requests[i].api = "createMetadata"
       /\ \A k \in 1..Len(editors) : editors[k].instance.id # id
       /\ editorsDefined' = TRUE
       /\ Commit(onAddSuccessHandler(editor), RemoveAt(requests, i))
       /\ last' = Event("success", "createMetadata", id, FALSE, Content(<<editor>>), <<>>)
       /\ UNCHANGED <<mounted, intents, templatesDefined, templates, isLoading, hasError>>

createMetadataSuccessClearsError(i, id) ==
    LET editor == MetadataEditor(FreshRef, id, requests[i].template, FALSE)
    IN /\ requests[i].api = "createMetadata"
       /\ \A k \in 1..Len(editors) : editors[k].instance.id # id
       /\ editorsDefined' = TRUE
       /\ Commit(onAddSuccessHandler(editor), RemoveAt(requests, i))
       /\ isLoading' = FALSE
       /\ hasError' = FALSE
       /\ last' = Event("success", "createMetadata", id, FALSE, Content(<<editor>>), <<>>)
       /\ UNCHANGED <<mounted, intents, templatesDefined, templates>>

\* success continuation of createMetadata: this.onAddSuccessHandler, called with a new
\* editor whose id the list does not hold
createMetadataSuccess(i, id) ==
    LET editor == MetadataEditor(FreshRef, id, requests[i].template, FALSE)
    IN /\ requests[i].api = "createMetadata"
       /\ \A k \in 1..Len(editors) : editors[k].instance.id # id
       /\ editorsDefined' = TRUE
       /\ Commit(onAddSuccessHandler(editor), RemoveAt(requests, i))
       /\ isLoading' = FALSE
       /\ last' = Event("success", "createMetadata", id, FALSE, Content(<<editor>>), <<>>)
       /\ UNCHANGED <<mounted, intents, templatesDefined, templates, hasError>>

\* clone.splice(editors.indexOf(oldEditor), 1, newEditor) on a copy of the list
replaceEditor(arr, oldEditor, newEditor) ==
    splice(arr, indexOf(arr, oldEditor), 1, <<newEditor>>)

\* onSaveSuccessHandler(oldEditor, newEditor): the list given to setState
onSaveSuccessHandler(oldEditor, newEditor) == replaceEditor(editors, oldEditor, newEditor)

\* mutant: onSave serialized, refused while a request is in flight
onSaveWhenIdle(id) ==
    LET oldEditor == getEditor(id)
    IN /\ Intent
       /\ Len(requests) = 0
       /\ last' = Handler("onSave", id, FALSE)
       /\ IF oldEditor = NoEditor
          THEN UNCHANGED requests
          ELSE requests' = Append(requests, Request("updateMetadata", oldEditor, oldEditor.template))
       /\ UNCHANGED <<mounted, state>>

\* onSave(id, ops)
onSave(id) ==
    LET oldEditor == getEditor(id)
    IN /\ Intent
       /\ last' = Handler("onSave", id, FALSE)
       /\ IF oldEditor = NoEditor
          THEN UNCHANGED requests
          ELSE requests' = Append(requests, Request("updateMetadata", oldEditor, oldEditor.template))
       /\ UNCHANGED <<mounted, state>>

\* success continuation of updateMetadata: newEditor => this.onSaveSuccessHandler(oldEditor, newEditor),
\* called with a new editor object of the same id
updateMetadataSuccess(i) ==
    LET oldEditor == requests[i].editor
        newEditor == MetadataEditor(FreshRef, oldEditor.instance.id, oldEditor.template, FALSE)
    IN /\ requests[i].api = "updateMetadata"
       /\ editorsDefined' = TRUE
       /\ Commit(onSaveSuccessHandler(oldEditor, newEditor), RemoveAt(requests, i))
       /\ last' = Event("success", "updateMetadata", oldEditor.instance.id, FALSE, Content(<<newEditor>>), <<>>)
       /\ UNCHANGED <<mounted, intents, templatesDefined, templates, isLoading, hasError>>

\* mutant: onModification toggling isDirty instead of setting it
modifiedToggle(editor, isDirty) == [editor EXCEPT !.ref = FreshRef, !.isDirty = ~editor.isDirty]

\* const editor = { ...editors[index] }; editor.isDirty = isDirty
modified(editor, isDirty) == [editor EXCEPT !.ref = FreshRef, !.isDirty = isDirty]

\* onModification(id, isDirty)
onModification(id, isDirty) ==
    LET index == findIndex(editors, id)
    IN /\ Intent
       /\ last' = Handler("onModification", id, isDirty)
       /\ IF index = -1
          THEN UNCHANGED <<editorsDefined, editors, requests>>
          ELSE LET editor == modified(editors[index + 1], isDirty)
               IN /\ editorsDefined' = TRUE
                  /\ Commit(splice(editors, index, 1, <<editor>>), requests)
       /\ UNCHANGED <<mounted, templatesDefined, templates, isLoading, hasError>>

\* ---- render ----
\* mutant: canEdit testing that can_upload is present instead of that it is truthy
canEditIfPresent(file) ==
    LET can_upload == IF file.hasPermissions THEN file.can_upload ELSE "undefined"
    IN can_upload # "undefined"

\* canEdit(): !!can_upload, of file.permissions defaulting to {}
canEdit(file) ==
    LET can_upload == IF file.hasPermissions THEN file.can_upload ELSE "undefined"
    IN can_upload = "true"

showEditor == templatesDefined /\ editorsDefined
\* mutant: the loading indicator not hidden by an error
showLoadingIndicatorOnError == ~showEditor

\* mutant: the loading indicator shown whenever there is no error
showLoadingIndicatorNoEditorCheck == ~hasError

showLoadingIndicator == ~hasError /\ ~showEditor
showTemplateDropdown(file) == showEditor /\ canEdit(file)
showEmptyContent == showEditor /\ Len(editors) = 0
\* {hasError && <InlineError/>}
showInlineError == hasError
\* <EmptyContent canAdd={canEdit} />
canAdd(file) == canEdit(file)
\* mutant: Instances rendered beside EmptyContent, not in its place
showInstancesWhenEmpty == showEditor

\* <Instances editors={editors}/>, the other branch of showEmptyContent
showInstances == showEditor /\ ~showEmptyContent
\* <LoadingIndicatorWrapper isLoading={isLoading}/> around the editor
showBusy == showEditor /\ isLoading

Next ==
    \/ componentDidMount
    \/ \E i \in 1..Len(requests), n \in 0..MaxInitial, T \in TemplateLists : getEditorsSuccess(i, n, T)
    \/ \E i \in 1..Len(requests) : Failure(i)
    \/ \E id \in Ids : onRemove(id)
    \/ \E i \in 1..Len(requests) : deleteMetadataSuccess(i)
    \/ \E template \in Templates : onAdd(template)
    \/ \E i \in 1..Len(requests), id \in Ids : createMetadataSuccess(i, id)
    \/ \E id \in Ids : onSave(id)
    \/ \E i \in 1..Len(requests) : updateMetadataSuccess(i)
    \/ \E id \in Ids, isDirty \in BOOLEAN : onModification(id, isDirty)

Spec == Init /\ [][Next]_vars

\* a continuation of a request in flight runs
Completion ==
    \/ \E i \in 1..Len(requests), n \in 0..MaxInitial, T \in TemplateLists : getEditorsSuccess(i, n, T)
    \/ \E i \in 1..Len(requests) : Failure(i)
    \/ \E i \in 1..Len(requests) : deleteMetadataSuccess(i)
    \/ \E i \in 1..Len(requests), id \in Ids : createMetadataSuccess(i, id)
    \/ \E i \in 1..Len(requests) : updateMetadataSuccess(i)

\* the component is mounted after construction, and the API invokes one continuation
\* of every request it was given
FairSpec == Spec /\ WF_vars(componentDidMount) /\ WF_vars(Completion)

\* ---- helpers of the properties ----
HasId(arr, id) == \E k \in 1..Len(arr) : arr[k].instance.id = id

\* the list without its (first) entry of the given id
removeById(arr, id) ==
    IF HasId(arr, id) THEN RemoveAt(arr, findIndex(arr, id) + 1) ELSE arr

RequestContent(rq) == [i \in 1..Len(rq) |-> [rq[i] EXCEPT !.editor.ref = 0]]

Success(api) == last'.op = "success" /\ last'.api = api

\* ---- C1 ----
\* C1: in every reachable state no two entries of editors have the same instance.id
C1_UniqueIds ==
    \A i, j \in 1..Len(editors) : i # j => editors[i].instance.id # editors[j].instance.id

\* ---- C2 ----
\* C2: when the deleteMetadata success callback of Remove(id) runs, the new list is the
\* list just before it without the entry of that id, and the same list if no entry has it
C2_RemoveById ==
    [][Success("deleteMetadata") =>
        Content(editors') = Content(removeById(editors, last'.id))]_vars

\* ---- C3 ----
\* C3: when the updateMetadata success callback of Save(id) runs with newEditor, the new
\* list has the length and order of the list just before it, newEditor at the position of
\* the entry of that id and every other entry unchanged
C3_ReplaceInPlace ==
    [][Success("updateMetadata") =>
        /\ Len(editors') = Len(editors)
        /\ \A k \in 1..Len(editors) :
              Content(editors')[k] =
                  IF k = findIndex(editors, last'.id) + 1
                  THEN last'.editors[1]
                  ELSE Content(editors)[k]]_vars

\* ---- C4 ----
\* C4: Save(id) or Remove(id) in a state where no entry of editors has that id (editors
\* undefined included) issues no request and leaves editors, templates, isLoading and
\* hasError unchanged
C4_MissIsNoOp ==
    [][(last'.op \in {"onSave", "onRemove"} /\ ~HasId(editors, last'.id)) =>
        UNCHANGED <<state, requests>>]_vars

C4_Witness ==
    /\ last.op \in {"onSave", "onRemove"}
    /\ ~HasId(editors, last.id)
    /\ ~editorsDefined
    /\ ~hasError

\* ---- C5 ----
\* C5 as stated: when the failure continuation of a createMetadata request runs, hasError
\* becomes true and isLoading is still true
C5_LoadingStuck ==
    [][(last'.op = "failure" /\ last'.api = "createMetadata") =>
        hasError' /\ isLoading']_vars

\* C5 amended: when the failure continuation of a createMetadata request runs, hasError
\* becomes true and isLoading becomes false
C5_LoadingCleared ==
    [][(last'.op = "failure" /\ last'.api = "createMetadata") =>
        hasError' /\ ~isLoading']_vars

C5_Witness ==
    /\ last.op = "failure"
    /\ last.api = "createMetadata"
    /\ hasError
    /\ ~isLoading

\* ---- C6 ----
\* C6: Add sets isLoading and issues exactly one createMetadata request; its success
\* callback, run with editor e, appends e to the list, keeping the entries before it in
\* order, clears isLoading and leaves templates and hasError unchanged
C6_AddAppends ==
    [][/\ last'.op = "onAdd" =>
            /\ isLoading'
            /\ requests' = Append(requests, requests'[Len(requests')])
            /\ requests'[Len(requests')].api = "createMetadata"
       /\ Success("createMetadata") =>
            /\ Content(editors') = Content(editors) \o last'.editors
            /\ ~isLoading'
            /\ UNCHANGED <<templatesDefined, templates, hasError>>]_vars

C6_Witness ==
    /\ last.op = "success"
    /\ last.api = "createMetadata"
    /\ Len(editors) > 1
    /\ Content(<<editors[Len(editors)]>>) = last.editors
    /\ ~isLoading

\* ---- C7 ----
\* C7: when the failure continuation of any request runs, hasError becomes true, editors
\* and templates stay as they were, and no request is issued: the requests in flight are
\* those before it less the failed one
C7_FailureOnlySetsError ==
    [][last'.op = "failure" =>
        /\ hasError'
        /\ UNCHANGED <<editorsDefined, editors, templatesDefined, templates>>
        /\ \E k \in 1..Len(requests) :
              /\ requests[k].api = last'.api
              /\ RequestContent(requests') = RequestContent(RemoveAt(requests, k))]_vars

C7_Witness ==
    /\ last.op = "failure"
    /\ last.api = "updateMetadata"
    /\ hasError
    /\ Len(editors) > 0
    /\ Len(requests) > 0

\* ---- C8 ----
\* C8: after the failure continuation of getEditors, isLoading is false, hasError is true,
\* and the view shows the error banner and neither a loading indicator, the editor list,
\* the empty state nor the template dropdown
C8_ListFailureView ==
    (last.op = "failure" /\ last.api = "getEditors") =>
        /\ ~isLoading
        /\ hasError
        /\ showInlineError
        /\ ~showLoadingIndicator
        /\ ~showBusy
        /\ ~showInstances
        /\ ~showEmptyContent
        /\ \A file \in Files : ~showTemplateDropdown(file)

C8_Witness ==
    /\ last.op = "failure"
    /\ last.api = "getEditors"
    /\ showInlineError
    /\ ~showLoadingIndicator

\* ---- C9 ----
\* C9: after the success continuation of getEditors, run with editors E and templates T,
\* editors is E, templates is T, isLoading and hasError are false, and the view shows
\* the entries of E (the empty state when E is empty), no error banner and no loading
\* indicator
C9_ListSuccess ==
    (last.op = "success" /\ last.api = "getEditors") =>
        /\ editorsDefined /\ Content(editors) = last.editors
        /\ templatesDefined /\ templates = last.templates
        /\ ~isLoading
        /\ ~hasError
        /\ showEditor
        /\ showEmptyContent <=> Len(last.editors) = 0
        /\ showInstances <=> Len(last.editors) > 0
        /\ ~showInlineError
        /\ ~showLoadingIndicator
        /\ ~showBusy

C9_Witness ==
    /\ last.op = "success"
    /\ last.api = "getEditors"
    /\ Len(last.editors) = 2
    /\ Content(editors) = last.editors
    /\ Len(last.templates) > 0
    /\ showInstances

\* ---- C10 ----
\* C10: Modify(id, isDirty) issues no request; if an entry has that id the new list
\* differs from the old one only in that entry's isDirty, which is the given value, and
\* templates, isLoading and hasError are unchanged; if no entry has it the state is
\* unchanged
C10_ModifyOnlySetsDirty ==
    [][last'.op = "onModification" =>
        /\ RequestContent(requests') = RequestContent(requests)
        /\ UNCHANGED <<templatesDefined, templates, isLoading, hasError>>
        /\ IF HasId(editors, last'.id)
           THEN /\ Len(editors') = Len(editors)
                /\ \A k \in 1..Len(editors) :
                      Content(editors')[k] =
                          IF k = findIndex(editors, last'.id) + 1
                          THEN [Content(editors)[k] EXCEPT !.isDirty = last'.isDirty]
                          ELSE Content(editors)[k]
           ELSE UNCHANGED <<editorsDefined, editors>>]_vars

C10_Witness ==
    /\ last.op = "onModification"
    /\ last.isDirty
    /\ Len(editors) = 2
    /\ editors[2].instance.id = last.id
    /\ editors[2].isDirty
    /\ ~editors[1].isDirty

Shown(display) == IF display THEN 1 ELSE 0

\* the displays render shows in the current state
Displays == Shown(showLoadingIndicator) + Shown(showInlineError)
                + Shown(showEmptyContent) + Shown(showInstances)

\* C12 as stated: in every reachable state the view shows exactly one of the loading
\* indicator, the error banner, the empty state and the editor list
C12_ExactlyOneDisplay == Displays = 1

\* C12 amended: in every reachable state the view shows at least one of the four; the
\* loading indicator is shown with none of the others, the empty state and the editor
\* list are never shown together, and the error banner is shown together with the
\* empty state or the editor list exactly when hasError holds after the list has loaded
C12_DisplaysShown ==
    /\ Displays >= 1
    /\ showLoadingIndicator => Displays = 1
    /\ ~(showEmptyContent /\ showInstances)
    /\ Displays = 2 <=> (hasError /\ templatesDefined /\ editorsDefined)
    /\ Displays <= 2

C12_Witness ==
    /\ showInlineError
    /\ showInstances
    /\ last.op = "failure"
    /\ last.api = "updateMetadata"

\* ---- C13 ----
\* C13: in every state where editors is a defined empty list and templates is defined,
\* the view shows the empty state, its add affordance enabled exactly when
\* file.permissions.can_upload is truthy, and neither the loading indicator nor the
\* editor list
C13_EmptyState ==
    (editorsDefined /\ Len(editors) = 0 /\ templatesDefined) =>
        /\ showEmptyContent
        /\ ~showLoadingIndicator
        /\ ~showInstances
        /\ \A file \in Files :
              canAdd(file) <=> (file.hasPermissions /\ file.can_upload = "true")

C13_Witness ==
    /\ editorsDefined
    /\ Len(editors) = 0
    /\ templatesDefined
    /\ Len(templates) > 0
    /\ showEmptyContent
    /\ ~hasError
    /\ last.op = "success"
    /\ last.api = "deleteMetadata"

\* ---- C14 ----
\* C14: the template dropdown is shown only in states where templates (and editors) are
\* defined and canEdit is true; canEdit is true exactly when file.permissions.can_upload
\* is truthy, so with permissions or can_upload missing or false the dropdown is shown
\* in no reachable state
C14_DropdownNeedsUpload ==
    \A file \in Files :
        /\ showTemplateDropdown(file) => (templatesDefined /\ editorsDefined /\ canEdit(file))
        /\ canEdit(file) <=> (file.hasPermissions /\ file.can_upload = "true")
        /\ (~file.hasPermissions \/ file.can_upload \in {"undefined", "false"}) =>
              ~showTemplateDropdown(file)

C14_Witness ==
    /\ templatesDefined
    /\ editorsDefined
    /\ showTemplateDropdown([hasPermissions |-> TRUE, can_upload |-> "true"])
    /\ ~showTemplateDropdown([hasPermissions |-> TRUE, can_upload |-> "false"])
    /\ ~showTemplateDropdown([hasPermissions |-> FALSE, can_upload |-> "undefined"])

\* ---- C15 ----
\* the list after the success continuation of an updateMetadata or deleteMetadata
\* request in flight, run on the list arr; ref is the reference of the saved editor
AfterSuccess(arr, request, ref) ==
    IF request.api = "deleteMetadata"
    THEN removeEditor(arr, request.editor)
    ELSE replaceEditor(arr, request.editor,
             MetadataEditor(ref, request.editor.instance.id, request.editor.template, FALSE))

InIssueOrder ==
    AfterSuccess(AfterSuccess(editors, requests[1], FreshRef), requests[2], FreshRef + 1)

InOppositeOrder ==
    AfterSuccess(AfterSuccess(editors, requests[2], FreshRef), requests[1], FreshRef + 1)

Mutating(request) == request.api \in {"createMetadata", "updateMetadata", "deleteMetadata"}

\* C15: mutating operations are not serialized: while a mutating request is in flight a
\* Save or a Remove of an editor of the list can be invoked and issues its request
C15_NotSerialized ==
    \A id \in Ids :
        (/\ mounted
         /\ intents < MaxIntents
         /\ HasId(editors, id)
         /\ \E i \in 1..Len(requests) : Mutating(requests[i])) =>
            /\ ENABLED (onSave(id) /\ Len(requests') = Len(requests) + 1)
            /\ ENABLED (onRemove(id) /\ Len(requests') = Len(requests) + 1)

\* a Save and a Remove in flight whose success continuations, run in issue order and in
\* the opposite order, leave different lists
C15_Witness ==
    /\ Len(requests) = 2
    /\ requests[1].api = "updateMetadata"
    /\ requests[2].api = "deleteMetadata"
    /\ Content(InIssueOrder) # Content(InOppositeOrder)

\* ---- C16 ----
\* C16: once an editor of id x is in the list, an entry of id x stays in the list in
\* every later state until the deleteMetadata success continuation of a Remove(x)
\* runs, over the handlers and the continuations of Save, Add and Remove
C16_NoEditorLost ==
    [][\A x \in Ids :
          (HasId(editors, x) /\ ~HasId(editors', x) /\ ~Success("getEditors")) =>
              (Success("deleteMetadata") /\ last'.id = x)]_vars

\* ---- C17 ----
CreateInFlight == \E i \in 1..Len(requests) : requests[i].api = "createMetadata"

\* C17: in every reachable state isLoading implies that a createMetadata request is in
\* flight; and when every request issued invokes one of its continuations, isLoading is
\* false from some state on
C17_LoadingMeansAddInFlight ==
    /\ [](isLoading => CreateInFlight)
    /\ <>[](~isLoading)

C17_Witness ==
    /\ isLoading
    /\ CreateInFlight
    /\ last.op = "success"
    /\ last.api = "deleteMetadata"

RECURSIVE ListRequests(_)
ListRequests(rq) ==
    IF rq = <<>> THEN 0
    ELSE (IF Head(rq).api = "getEditors" THEN 1 ELSE 0) + ListRequests(Tail(rq))

ListInFlight == ListRequests(requests) > 0

====
